---------------------------- MODULE Spec2Model ----------------------------
(***************************************************************************)
(* Dynamic QR service: the content record (models/DynamicQR.js), the       *)
(* content update engine (qrController part of controllers/                *)
(* scanController.js) and the scan dispatcher (scanController part of the  *)
(* same file), over a document repository and a blob store.                *)
(***************************************************************************)
EXTENDS Integers, Sequences, FiniteSets, TLC

(***************************************************************************)
(* Bounds of the model and constants of the program.                       *)
(***************************************************************************)
\* number of requests served in one behaviour
MaxSteps == 2
\* number of blobs multer may write in one behaviour, besides the seeded one
MaxUploads == 2

HistoryLimit == 50
MaxTextLength == 5000
MinPasswordLength == 4
MaxIdAttempts == 5
PreviewLength == 200
InfoPreviewLength == 100
MaxBulk == 50

QRIds == {"q1", "q2"}

(***************************************************************************)
(* Strings.  A JavaScript string is modelled by its shape: `pre' and       *)
(* `post' whitespace characters around a core of `len' characters that     *)
(* neither starts nor ends with whitespace; `core' names the core's text.  *)
(* undefined and "" are both the empty string (the code tests them with    *)
(* the same truthiness checks).                                            *)
(***************************************************************************)
Str(core, len) == [pre |-> 0, core |-> core, len |-> len, post |-> 0]

NoStr == Str("", 0)

Padded(s, a, b) == [s EXCEPT !.pre = a, !.post = b]

StrLength(s) == s.pre + s.len + s.post

Truthy(s) == StrLength(s) > 0

\* trims the start of the string only
TrimStart(s) == [s EXCEPT !.pre = 0]

Trim(s) == [s EXCEPT !.pre = 0, !.post = 0]

Substring(s, n) ==
  IF StrLength(s) <= n THEN s
  ELSE [pre |-> IF s.pre < n THEN s.pre ELSE n,
        core |-> s.core,
        len |-> IF s.pre >= n THEN 0
                ELSE IF s.pre + s.len <= n THEN s.len ELSE n - s.pre,
        post |-> IF s.pre + s.len >= n THEN 0 ELSE n - s.pre - s.len]

(***************************************************************************)
(* The texts the requests are built from.                                  *)
(***************************************************************************)
Hello == Str("hello", 5)
LongText == Str("lorem", MaxTextLength)
TooLongText == Str("lorem+", MaxTextLength + 1)
Blank == Padded(NoStr, 2, 0)

GoodUrl == Str("https://a.example", 17)
OtherUrl == Str("http://b.example", 16)
FtpUrl == Str("ftp://a.example", 15)
SlashlessUrl == Str("http:a.example", 14)
NotUrl == Str("a.example", 9)

GoodPhone == Str("+998901234567", 13)
BadPhone == Str("12ab", 4)
GoodEmail == Str("a@b.co", 6)
BadEmail == Str("a@b", 3)
Name == Str("Ali", 3)
Company == Str("Acme", 4)

Secret == Str("abcd", 4)
OtherSecret == Str("wxyz", 4)
ShortSecret == Str("abc", 3)

\* new URL(url): the strings the WHATWG parser accepts, and their protocol
UrlParses(u) == u.core \in {"https://a.example", "http://b.example",
                            "ftp://a.example", "http:a.example"}

UrlProtocol(u) ==
  CASE u.core = "https://a.example" -> "https:"
    [] u.core \in {"http://b.example", "http:a.example"} -> "http:"
    [] u.core = "ftp://a.example" -> "ftp:"
    [] OTHER -> ""

\* /^https?:\/\/.+/
MatchesHttpRegex(u) ==
  u.pre = 0 /\ u.core \in {"https://a.example", "http://b.example"}

\* /^\+?[\d\s\-\(\)]{7,20}$/
MatchesPhoneRegex(p) == p.core = "+998901234567" /\ StrLength(p) <= 21

\* /^[^\s@]+@[^\s@]+\.[^\s@]+$/
MatchesEmailRegex(e) == e.core = "a@b.co" /\ e.pre = 0 /\ e.post = 0


(***************************************************************************)
(* Content variants: currentContentSchema.  Absent string fields are       *)
(* NoStr, an absent filePath is blob 0.  A mime type is its family (the    *)
(* part before the slash) and its subtype.                                 *)
(***************************************************************************)
ContentTypes == {"text", "link", "file", "contact", "empty"}

NoBlob == 0

Mime(family, subtype) == [family |-> family, subtype |-> subtype]

NoMime == Mime("", "")

BlankContent ==
  [type |-> "empty", text |-> NoStr, url |-> NoStr, linkTitle |-> NoStr,
   filePath |-> NoBlob, originalName |-> NoStr, fileSize |-> 0,
   mimeType |-> NoMime, contactName |-> NoStr, phone |-> NoStr,
   email |-> NoStr, company |-> NoStr, description |-> NoStr,
   lastUpdated |-> 0]

NotYetAdded == Str("Content hali qo'shilmagan", 25)
ContentRemoved == Str("Content o'chirildi", 18)

\* a new record that starts with an (empty) text variant
InitialContentAsText(description, now) ==
  [BlankContent EXCEPT !.type = "text", !.description = description,
                       !.lastUpdated = now]

\* the content createQR gives a new record
InitialContent(description, now) ==
  [BlankContent EXCEPT
     !.description = IF Truthy(description) THEN description ELSE NotYetAdded,
     !.lastUpdated = now]

\* one entry of contentHistory, as addToHistory builds it
HistoryEntry(oldContent, now) ==
  [type |-> oldContent.type, content |-> oldContent, changedAt |-> now]

DefaultSettings == [allowTracking |-> TRUE, customDomain |-> NoStr,
                    password |-> NoStr]

\* the path generateQRCode writes the image of a record to
QrPath(id) == id

\* the document createQR builds (schema defaults filled in)
NewQR(id, title, description, now) ==
  [id |-> id, title |-> Trim(title), qrCodePath |-> QrPath(id),
   currentContent |-> InitialContent(description, now),
   createdDate |-> now, scanCount |-> 0, lastScanned |-> 0,
   contentHistory |-> << >>, isActive |-> TRUE,
   settings |-> DefaultSettings]

(***************************************************************************)
(* Uploads (multer) and update requests.                                   *)
(***************************************************************************)
NoFile == [path |-> NoBlob, originalname |-> NoStr, size |-> 0,
           mimetype |-> NoMime]

PdfFile(path) == [path |-> path, originalname |-> Str("menu.pdf", 8),
                  size |-> 1024, mimetype |-> Mime("application", "pdf")]

ZipFile(path) == [path |-> path, originalname |-> Str("data.zip", 8),
                  size |-> 2048, mimetype |-> Mime("application", "zip")]

BlankRequest ==
  [contentType |-> "", text |-> NoStr, url |-> NoStr, linkTitle |-> NoStr,
   contactName |-> NoStr, phone |-> NoStr, email |-> NoStr,
   company |-> NoStr, description |-> NoStr, file |-> NoFile]

TextRequests ==
  {[BlankRequest EXCEPT !.contentType = "text", !.text = t] :
     t \in {Blank, Padded(Hello, 1, 1), LongText, Padded(LongText, 1, 0),
            TooLongText}}

LinkRequests ==
  {[BlankRequest EXCEPT !.contentType = "link", !.url = u] :
     u \in {Padded(OtherUrl, 1, 0), FtpUrl, SlashlessUrl}}

ContactRequests ==
  {[BlankRequest EXCEPT !.contentType = "contact", !.contactName = f[1],
                        !.phone = f[2], !.email = f[3], !.company = f[4]] :
     f \in {<<NoStr, NoStr, NoStr, Company>>,
            <<Blank, NoStr, NoStr, NoStr>>,
            <<Padded(Name, 0, 1), GoodPhone, GoodEmail, Company>>,
            <<Name, BadPhone, NoStr, NoStr>>,
            <<NoStr, NoStr, BadEmail, NoStr>>}}

OtherRequests ==
  {[BlankRequest EXCEPT !.contentType = t] : t \in {"file", "empty", "video"}}

\* the request bodies of PUT /:id/content, before the upload is attached
UpdateRequests ==
  TextRequests \cup LinkRequests \cup ContactRequests \cup OtherRequests


(***************************************************************************)
(* Responses.  One record per request served: the handler, the record id,  *)
(* the directive, the content fields the body discloses, the redirect      *)
(* target, the disposition of a streamed file, the field a validation      *)
(* error names, and the ids a listing or a bulk operation reports.         *)
(***************************************************************************)
NoContent == [BlankContent EXCEPT !.type = "none"]

Res(op, id, directive) ==
  [op |-> op, id |-> id, directive |-> directive, shown |-> NoContent,
   location |-> NoStr, disposition |-> "", field |-> "", scanCount |-> 0,
   listed |-> {}]

(***************************************************************************)
(* Document.save(): mongoose first validates the modified paths against    *)
(* the schema, then runs the pre('save') hooks, then writes the modified   *)
(* paths to the repository.                                                *)
(***************************************************************************)
\* the validators of currentContentSchema
ContentValid(c) ==
  /\ c.type \in ContentTypes
  /\ StrLength(c.text) <= MaxTextLength
  /\ (c.type = "link" /\ Truthy(c.url)) => MatchesHttpRegex(c.url)
  /\ StrLength(c.linkTitle) <= 200
  /\ c.fileSize >= 0
  /\ StrLength(c.contactName) <= 100
  /\ (c.type = "contact" /\ Truthy(c.phone)) => MatchesPhoneRegex(c.phone)
  /\ (c.type = "contact" /\ Truthy(c.email)) => MatchesEmailRegex(c.email)
  /\ StrLength(c.company) <= 200
  /\ StrLength(c.description) <= 1000

\* the validator of the contentHistory path
HistoryValid(h) == Len(h) <= HistoryLimit

\* the validators of dynamicQRSchema on the paths a handler modified
SchemaValid(doc, modified) ==
  /\ "currentContent" \in modified => ContentValid(doc.currentContent)
  /\ "contentHistory" \in modified => HistoryValid(doc.contentHistory)
  /\ "scanCount" \in modified => doc.scanCount >= 0
  /\ "title" \in modified => StrLength(doc.title) \in 1..200

\* the pre('save') hook
PreSave(doc) ==
  IF Len(doc.contentHistory) > HistoryLimit
    THEN [doc EXCEPT !.contentHistory =
            SubSeq(doc.contentHistory,
                   Len(doc.contentHistory) - HistoryLimit + 1,
                   Len(doc.contentHistory))]
    ELSE doc

\* a save that writes the document without validation and without hooks
SaveUnchecked(dbv, doc, modified, storeOk) ==
  IF ~storeOk \/ doc.id \notin DOMAIN dbv
    THEN [outcome |-> "StoreError", db |-> dbv]
    ELSE [outcome |-> "ok", db |-> [dbv EXCEPT ![doc.id] = doc]]

\* a save that writes the whole document and stamps its creation date anew
SaveRestamped(dbv, doc, modified, storeOk) ==
  IF ~storeOk \/ doc.id \notin DOMAIN dbv
    THEN [outcome |-> "StoreError", db |-> dbv]
    ELSE [outcome |-> "ok",
          db |-> [dbv EXCEPT ![doc.id] =
                    [doc EXCEPT !.createdDate = doc.createdDate + 1]]]

\* the outcome of doc.save(): "ok", "ValidationError" or "StoreError", and
\* the repository afterwards; storeOk says whether the repository accepts
\* the write
Save(dbv, doc, modified, storeOk) ==
  IF ~SchemaValid(doc, modified)
    THEN [outcome |-> "ValidationError", db |-> dbv]
  ELSE IF ~storeOk \/ doc.id \notin DOMAIN dbv
    THEN [outcome |-> "StoreError", db |-> dbv]
  ELSE LET saved == PreSave(doc)
           written == [f \in DOMAIN saved |->
                         IF f \in modified THEN saved[f] ELSE dbv[doc.id][f]]
       IN [outcome |-> "ok", db |-> [dbv EXCEPT ![doc.id] = written]]

(***************************************************************************)
(* The blob store.                                                         *)
(***************************************************************************)
\* a deleteFile that removes nothing
KeepFile(blobsv, filePath) == blobsv

\* deleteFile(filePath): the blob store afterwards
DeleteFile(blobsv, filePath) ==
  IF filePath # NoBlob /\ filePath \in blobsv THEN blobsv \ {filePath}
  ELSE blobsv

(***************************************************************************)
(* updateQRContent.                                                        *)
(***************************************************************************)
\* validateUrl
ValidUrl(u) == UrlParses(u) /\ UrlProtocol(u) \in {"http:", "https:"}

\* the field the switch of updateQRContent rejects first, "" if none
FieldError(req) ==
  CASE req.contentType = "text" ->
         IF ~Truthy(req.text) \/ StrLength(Trim(req.text)) = 0 THEN "text"
         ELSE IF StrLength(req.text) > MaxTextLength THEN "text"
         ELSE ""
    [] req.contentType = "link" ->
         IF ~Truthy(req.url) \/ StrLength(Trim(req.url)) = 0 THEN "url"
         ELSE IF ~ValidUrl(Trim(req.url)) THEN "url"
         ELSE ""
    [] req.contentType = "file" ->
         IF req.file.path = NoBlob THEN "file" ELSE ""
    [] req.contentType = "contact" ->
         IF ~Truthy(req.contactName) /\ ~Truthy(req.phone)
              /\ ~Truthy(req.email) THEN "contact"
         ELSE IF Truthy(req.phone) /\ ~MatchesPhoneRegex(Trim(req.phone))
           THEN "phone"
         ELSE IF Truthy(req.email) /\ ~MatchesEmailRegex(Trim(req.email))
           THEN "email"
         ELSE ""
    [] req.contentType = "empty" -> ""
    [] OTHER -> "contentType"

\* the newContent object the switch of updateQRContent builds
NewContent(req, now) ==
  LET base == [BlankContent EXCEPT !.type = req.contentType,
                                   !.description = req.description,
                                   !.lastUpdated = now]
  IN CASE req.contentType = "text" ->
            [base EXCEPT !.text = Trim(req.text)]
       [] req.contentType = "link" ->
            [base EXCEPT !.url = Trim(req.url),
                         !.linkTitle = IF Truthy(Trim(req.linkTitle))
                                         THEN Trim(req.linkTitle)
                                         ELSE Trim(req.url)]
       [] req.contentType = "file" ->
            [base EXCEPT !.filePath = req.file.path,
                         !.originalName = req.file.originalname,
                         !.fileSize = req.file.size,
                         !.mimeType = req.file.mimetype]
       [] req.contentType = "contact" ->
            [base EXCEPT !.contactName = Trim(req.contactName),
                         !.phone = Trim(req.phone),
                         !.email = Trim(req.email),
                         !.company = Trim(req.company)]
       [] req.contentType = "empty" ->
            [base EXCEPT !.description = ContentRemoved]
       [] OTHER -> base

\* an update that never removes the file it replaces
CleanupNothing(blobsv, qr, req) == blobsv

\* the blob store after the old-file cleanup of updateQRContent
CleanupOldFile(blobsv, qr, req) ==
  IF qr.currentContent.type = "file" /\ qr.currentContent.filePath # NoBlob
       /\ req.file.path # NoBlob
    THEN DeleteFile(blobsv, qr.currentContent.filePath)
    ELSE blobsv

\* the whole handler: repository, blob store and response afterwards
UpdateOutcome(dbv, blobsv, id, req, now, storeOk) ==
  LET res(d) == Res("updateQRContent", id, d)
  IN IF id \notin DOMAIN dbv
       THEN [db |-> dbv, blobs |-> blobsv, res |-> res("NotFound")]
     ELSE IF req.contentType \notin ContentTypes
       THEN [db |-> dbv, blobs |-> blobsv,
             res |-> [res("InvalidContentType") EXCEPT
                        !.field = "contentType"]]
     ELSE
       LET qr == dbv[id]
           history == Append(qr.contentHistory,
                             HistoryEntry(qr.currentContent, now))
           blobs1 == CleanupOldFile(blobsv, qr, req)
           err == FieldError(req)
       IN IF err # ""
            THEN [db |-> dbv, blobs |-> blobs1,
                  res |-> [res("InvalidContentField") EXCEPT !.field = err]]
          ELSE
            LET doc == [qr EXCEPT !.contentHistory = history,
                                  !.currentContent = NewContent(req, now)]
                saved == Save(dbv, doc, {"contentHistory", "currentContent"},
                              storeOk)
            IN IF saved.outcome = "ok"
                 THEN [db |-> saved.db, blobs |-> blobs1,
                       res |-> [res("Updated") EXCEPT
                                  !.shown = saved.db[id].currentContent,
                                  !.scanCount = saved.db[id].scanCount]]
                 ELSE [db |-> dbv, blobs |-> blobs1,
                       res |-> res(saved.outcome)]


(***************************************************************************)
(* State.                                                                  *)
(***************************************************************************)
VARIABLES
  db,         \* the repository: record id -> persisted document
  blobs,      \* the blob store: the uploaded files that exist
  images,     \* the ids whose QR image file exists
  analytics,  \* the analytics records emitted so far
  clock,      \* the current time
  nextBlob,   \* the path multer gives the next upload
  steps,      \* requests served so far
  res,        \* the response to the last request
  inflight,   \* the handlers that run concurrently: where each one stands
  loginAttempts  \* the Map of authController: client identifier -> attempts

vars == <<db, blobs, images, analytics, clock, nextBlob, steps, res,
          inflight, loginAttempts>>

\* the handlers that may run at the same time
Procs == {"p1", "p2"}

\* a handler that has not been called
NotRunning ==
  [pc |-> "idle", op |-> "", id |-> "", doc |-> NewQR("", NoStr, NoStr, 0),
   req |-> BlankRequest, directive |-> "none"]

Menu == Str("Menu", 4)

(***************************************************************************)
(* Repositories with some life behind them.  Record q1 has been created at *)
(* time 1 and updated m times, last with a PDF upload (before that with    *)
(* texts and removals in turn); record q2 has been created after that,     *)
(* given a link and then a password.                                       *)
(***************************************************************************)
SeedBlob == NoBlob + 1

\* the n-th of the m updates of q1
SeedRequest(n, m) ==
  IF n = m
    THEN [BlankRequest EXCEPT !.contentType = "file",
                              !.file = PdfFile(SeedBlob)]
  ELSE IF n % 2 = 1
    THEN [BlankRequest EXCEPT !.contentType = "text", !.text = Hello]
  ELSE [BlankRequest EXCEPT !.contentType = "empty"]

\* the content that is active when the n-th update of q1 arrives
SeedContent(n, m) ==
  IF n = 1 THEN InitialContent(NoStr, 1)
  ELSE NewContent(SeedRequest(n - 1, m), n)

\* q1 after createQR at time 1 and n < m updates at times 2 .. n+1
SeedRecord(n, m) ==
  [NewQR("q1", Menu, NoStr, 1) EXCEPT
     !.currentContent = SeedContent(n + 1, m),
     !.contentHistory =
        [k \in 1..n |-> HistoryEntry(SeedContent(k, m), k + 1)]]

\* the m-th update of q1, the upload of SeedBlob, run through the handler
Aged(m) ==
  UpdateOutcome([i \in {"q1"} |-> SeedRecord(m - 1, m)], {SeedBlob}, "q1",
                SeedRequest(m, m), m + 1, TRUE)

\* q2: createQR at time m + 2, then a link update and a password
Populated(m) ==
  LET t == m + 2
      created == [i \in {"q1", "q2"} |->
                    IF i = "q1" THEN Aged(m).db["q1"]
                    ELSE NewQR("q2", Str("Shop", 4), NoStr, t)]
      linked == UpdateOutcome(created, Aged(m).blobs, "q2",
                              [BlankRequest EXCEPT !.contentType = "link",
                                                   !.url = GoodUrl],
                              t + 1, TRUE)
  IN [db |-> [linked.db EXCEPT !["q2"].settings.password = Secret],
      blobs |-> linked.blobs]

Idle == Res("none", "", "none")

\* nothing has been served yet
Quiet ==
  /\ analytics = {}
  /\ steps = 0
  /\ res = Idle
  /\ inflight = [p \in Procs |-> NotRunning]
  /\ loginAttempts = << >>

InitFresh ==
  /\ db = << >>
  /\ blobs = {}
  /\ images = {}
  /\ clock = 1
  /\ nextBlob = SeedBlob

\* q1 updated once, q2 protected
InitPopulated ==
  /\ db = Populated(1).db
  /\ blobs = Populated(1).blobs
  /\ images = {"q1", "q2"}
  /\ clock = 6
  /\ nextBlob = SeedBlob + 1

\* q1 one update short of a full history
AgedStore ==
  /\ db = Aged(HistoryLimit - 1).db
  /\ blobs = Aged(HistoryLimit - 1).blobs
  /\ images = {"q1"}
  /\ clock = HistoryLimit + 1
  /\ nextBlob = SeedBlob + 1

Init == (InitFresh \/ InitPopulated) /\ Quiet

InitAged == AgedStore /\ Quiet

\* every request takes one tick of the clock and one step of the budget;
\* it is served alone, and it is no login
Served ==
  /\ steps < MaxSteps
  /\ steps' = steps + 1
  /\ clock' = clock + 1
  /\ UNCHANGED <<inflight, loginAttempts>>

(***************************************************************************)
(* createQR.                                                               *)
(***************************************************************************)
\* an allocation loop that gives up one attempt early
FirstFreeOfFour(dbv, cands) ==
  IF \E k \in 1..(MaxIdAttempts - 1) : cands[k] \notin DOMAIN dbv
    THEN CHOOSE k \in 1..(MaxIdAttempts - 1) :
           /\ cands[k] \notin DOMAIN dbv
           /\ \A j \in 1..(k - 1) : cands[j] \in DOMAIN dbv
    ELSE 0

\* the first attempt of the allocation loop whose candidate is free, 0 if
\* none of the MaxIdAttempts candidates is
FirstFree(dbv, cands) ==
  IF \E k \in 1..MaxIdAttempts : cands[k] \notin DOMAIN dbv
    THEN CHOOSE k \in 1..MaxIdAttempts :
           /\ cands[k] \notin DOMAIN dbv
           /\ \A j \in 1..(k - 1) : cands[j] \in DOMAIN dbv
    ELSE 0

\* a deleteQRCode that removes nothing
KeepQRCode(imagesv, id) == imagesv

\* deleteQRCode(qrId): the image files afterwards
DeleteQRCode(imagesv, id) == imagesv \ {id}

CreateQR(title, description, cands, fault) ==
  LET r(d) == Res("createQR", "", d)
      k == FirstFree(db, cands)
  IN /\ Served
     /\ UNCHANGED <<blobs, analytics, nextBlob>>
     /\ IF ~Truthy(title) \/ StrLength(title) > 200
          THEN /\ res' = [r("ValidationError") EXCEPT !.field = "title"]
               /\ UNCHANGED <<db, images>>
        ELSE IF k = 0
          THEN /\ res' = r("AllocationExhausted")
               /\ UNCHANGED <<db, images>>
        ELSE
          LET id == cands[k]
              doc == NewQR(id, title, description, clock)
          IN IF fault = "image"
               THEN /\ res' = [r("ImageError") EXCEPT !.id = id]
                    /\ images' = DeleteQRCode(images, id)
                    /\ UNCHANGED db
             ELSE IF ~SchemaValid(doc, {"title", "currentContent"})
               THEN /\ res' = [r("ValidationError") EXCEPT
                                 !.id = id, !.field = "title"]
                    /\ images' = DeleteQRCode(images \cup {id}, id)
                    /\ UNCHANGED db
             ELSE IF fault = "store"
               THEN /\ res' = [r("StoreError") EXCEPT !.id = id]
                    /\ images' = DeleteQRCode(images \cup {id}, id)
                    /\ UNCHANGED db
             ELSE /\ res' = [r("Created") EXCEPT
                               !.id = id, !.shown = doc.currentContent]
                  /\ images' = images \cup {id}
                  /\ db' = [i \in DOMAIN db \cup {id} |->
                              IF i = id THEN doc ELSE db[i]]

(***************************************************************************)
(* PUT /:id/content: multer stores the upload, then updateQRContent runs.  *)
(***************************************************************************)
UpdateQRContent(id, body, upload, storeOk) ==
  LET req == [body EXCEPT !.file = upload]
      stored == IF upload.path = NoBlob THEN blobs
                ELSE blobs \cup {upload.path}
      out == UpdateOutcome(db, stored, id, req, clock, storeOk)
  IN /\ Served
     /\ upload.path # NoBlob => nextBlob <= SeedBlob + MaxUploads
     /\ nextBlob' = IF upload.path = NoBlob THEN nextBlob ELSE nextBlob + 1
     /\ db' = out.db
     /\ blobs' = out.blobs
     /\ res' = out.res
     /\ UNCHANGED <<images, analytics>>


(***************************************************************************)
(* The scan dispatcher.                                                    *)
(***************************************************************************)
\* findOne({ id })
FindAny(dbv, id) == id \in DOMAIN dbv

\* findOne({ id, isActive: true })
FindActive(dbv, id) == id \in DOMAIN dbv /\ dbv[id].isActive

\* a gate that lets every request through
CheckNoPassword(qr, providedPassword) == TRUE

CheckQRPassword(qr, providedPassword) ==
  IF ~Truthy(qr.settings.password) THEN TRUE
  ELSE qr.settings.password = providedPassword

\* a document loaded with a select() that leaves out settings: the nested
\* path is there, its fields are undefined
WithoutSettings(qr) ==
  [qr EXCEPT !.settings = [allowTracking |-> FALSE, customDomain |-> NoStr,
                           password |-> NoStr]]

\* an incrementScan that counts the access twice
IncrementScanTwice(qr, now) ==
  [qr EXCEPT !.scanCount = qr.scanCount + 2, !.lastScanned = now]

\* incrementScan(): the document with the counter advanced, before save()
IncrementScan(qr, now) ==
  [qr EXCEPT !.scanCount = qr.scanCount + 1, !.lastScanned = now]

\* recordScanAnalytics: the analytics records afterwards
RecordScanAnalytics(log, qr, now) ==
  IF ~qr.settings.allowTracking THEN log
  ELSE log \cup {[id |-> qr.id, timestamp |-> now]}

\* an isViewable that knows the media families only
IsViewableMedia(mimeType) ==
  mimeType.family \in {"image", "text", "video", "audio"}

\* isViewable of handleFileServing
IsViewable(mimeType) ==
  \/ mimeType.family = "image"
  \/ mimeType = Mime("application", "pdf")
  \/ mimeType.family = "text"
  \/ mimeType.family = "video"
  \/ mimeType.family = "audio"

\* a handleFileServing that streams without looking for the file
StreamUnchecked(r, content, blobsv) ==
  [r EXCEPT !.directive = "Stream",
            !.shown = [NoContent EXCEPT !.type = "file",
                                        !.filePath = content.filePath,
                                        !.originalName = content.originalName,
                                        !.fileSize = content.fileSize,
                                        !.mimeType = content.mimeType],
            !.disposition = IF IsViewable(content.mimeType)
                              THEN "inline" ELSE "attachment"]

\* handleFileServing
HandleFileServing(r, content, blobsv) ==
  IF content.filePath = NoBlob \/ content.filePath \notin blobsv
    THEN [r EXCEPT !.directive = "BlobMissing"]
    ELSE [r EXCEPT !.directive = "Stream",
                   !.shown = [NoContent EXCEPT
                                !.type = "file",
                                !.filePath = content.filePath,
                                !.originalName = content.originalName,
                                !.fileSize = content.fileSize,
                                !.mimeType = content.mimeType],
                   !.disposition = IF IsViewable(content.mimeType)
                                     THEN "inline" ELSE "attachment"]

\* the four contact fields a contact card or a vCard carries
ContactFields(content) ==
  [NoContent EXCEPT !.type = "contact",
                    !.contactName = content.contactName,
                    !.phone = content.phone,
                    !.email = content.email,
                    !.company = content.company]

\* a handleContactDisplay that always renders the contact page
ContactAlwaysPage(r, content, format) ==
  [r EXCEPT !.directive = "Render",
            !.shown = [ContactFields(content) EXCEPT
                         !.description = content.description,
                         !.lastUpdated = content.lastUpdated]]

\* handleContactDisplay
HandleContactDisplay(r, content, format) ==
  IF format \in {"vcard", "vcf"}
    THEN [r EXCEPT !.directive = "Export", !.shown = ContactFields(content)]
    ELSE [r EXCEPT !.directive = "Render",
                   !.shown = [ContactFields(content) EXCEPT
                                !.description = content.description,
                                !.lastUpdated = content.lastUpdated]]

\* the switch of scanQR on the type of the active content
Dispatch(r, content, format, blobsv) ==
  CASE content.type = "empty" ->
         [r EXCEPT !.directive = "Render",
                   !.shown = [NoContent EXCEPT
                                !.type = "empty",
                                !.description = content.description]]
    [] content.type = "text" ->
         [r EXCEPT !.directive = "Render",
                   !.shown = [NoContent EXCEPT
                                !.type = "text",
                                !.text = content.text,
                                !.description = content.description,
                                !.lastUpdated = content.lastUpdated]]
    [] content.type = "link" ->
         [r EXCEPT !.directive = "Redirect", !.location = content.url]
    [] content.type = "file" -> HandleFileServing(r, content, blobsv)
    [] content.type = "contact" -> HandleContactDisplay(r, content, format)
    [] OTHER -> [r EXCEPT !.directive = "ServerError"]

ScanQR(id, password, format, storeOk) ==
  LET r == Res("scanQR", id, "none")
  IN /\ Served
     /\ UNCHANGED <<blobs, images, nextBlob>>
     /\ IF ~FindActive(db, id)
          THEN /\ res' = [r EXCEPT !.directive = "NotFound"]
               /\ UNCHANGED <<db, analytics>>
        ELSE IF ~CheckQRPassword(db[id], password)
          THEN /\ res' = [r EXCEPT !.directive = "PasswordRequired",
                                   !.scanCount = db[id].scanCount]
               /\ UNCHANGED <<db, analytics>>
        ELSE
          LET qr == IncrementScan(db[id], clock)
              saved == Save(db, qr, {"scanCount", "lastScanned"}, storeOk)
          IN IF saved.outcome # "ok"
               THEN /\ res' = [r EXCEPT !.directive = saved.outcome]
                    /\ UNCHANGED <<db, analytics>>
               ELSE /\ db' = saved.db
                    /\ analytics' = RecordScanAnalytics(analytics, qr, clock)
                    /\ res' = Dispatch([r EXCEPT !.scanCount = qr.scanCount],
                                       qr.currentContent, format, blobs)

\* the content fields the preview page of previewQR shows
PreviewShown(content) ==
  CASE content.type = "text" ->
         [NoContent EXCEPT !.type = "text",
                           !.text = Substring(content.text, PreviewLength)]
    [] content.type = "link" ->
         [NoContent EXCEPT !.type = "link", !.url = content.url,
                           !.linkTitle = content.linkTitle]
    [] content.type = "file" ->
         [NoContent EXCEPT !.type = "file",
                           !.originalName = content.originalName,
                           !.fileSize = content.fileSize,
                           !.mimeType = content.mimeType]
    [] content.type = "contact" -> ContactFields(content)
    [] OTHER -> [NoContent EXCEPT !.type = content.type]

\* a preview that counts as a scan
PreviewQRCounting(id, password) ==
  LET r == Res("previewQR", id, "none")
  IN /\ Served
     /\ UNCHANGED <<blobs, images, analytics, nextBlob>>
     /\ IF ~FindActive(db, id)
          THEN /\ res' = [r EXCEPT !.directive = "NotFound"]
               /\ UNCHANGED db
          ELSE /\ db' = Save(db, IncrementScan(db[id], clock),
                             {"scanCount", "lastScanned"}, TRUE).db
               /\ res' = [r EXCEPT !.directive = "Render",
                                   !.shown = PreviewShown(db[id].currentContent),
                                   !.scanCount = db[id].scanCount]

PreviewQR(id, password) ==
  LET r == Res("previewQR", id, "none")
  IN /\ Served
     /\ UNCHANGED <<db, blobs, images, analytics, nextBlob>>
     /\ IF ~FindActive(db, id)
          THEN res' = [r EXCEPT !.directive = "NotFound"]
          ELSE res' = [r EXCEPT !.directive = "Render",
                                !.shown = PreviewShown(db[id].currentContent),
                                !.scanCount = db[id].scanCount]

QuickRedirect(id, password, storeOk) ==
  LET r == Res("quickRedirect", id, "none")
  IN /\ Served
     /\ UNCHANGED <<blobs, images, nextBlob>>
     /\ IF ~FindActive(db, id)
          THEN /\ res' = [r EXCEPT !.directive = "NotFound"]
               /\ UNCHANGED <<db, analytics>>
        ELSE IF db[id].currentContent.type = "link"
          THEN LET qr == IncrementScan(WithoutSettings(db[id]), clock)
                   saved == Save(db, qr, {"scanCount", "lastScanned"},
                                 storeOk)
               IN IF saved.outcome # "ok"
                    THEN /\ res' = [r EXCEPT !.directive = saved.outcome]
                         /\ UNCHANGED <<db, analytics>>
                    ELSE /\ db' = saved.db
                         /\ analytics' =
                              RecordScanAnalytics(analytics, qr, clock)
                         /\ res' = [r EXCEPT
                                      !.directive = "Redirect",
                                      !.location = qr.currentContent.url,
                                      !.scanCount = qr.scanCount]
        ELSE /\ res' = [r EXCEPT !.directive = "RedirectToScan"]
             /\ UNCHANGED <<db, analytics>>

(***************************************************************************)
(* Settings, soft and hard delete, restore.                                *)
(***************************************************************************)
\* the URL `https://${customDomain}` that updateQRSettings validates
DomainUrl(customDomain) ==
  IF customDomain = Str("a.example", 9) THEN GoodUrl ELSE NotUrl

\* a body field of updateQRSettings: given or undefined; a given value
\* that is not a boolean / is falsy has kind "null"
Undefined == [given |-> FALSE, flag |-> FALSE, value |-> NoStr]
GivenFlag(b) == [given |-> TRUE, flag |-> b, value |-> NoStr]
GivenStr(s) == [given |-> TRUE, flag |-> FALSE, value |-> s]

UpdateQRSettings(id, allowTracking, customDomain, password, storeOk) ==
  LET r == Res("updateQRSettings", id, "none")
  IN /\ Served
     /\ UNCHANGED <<blobs, images, analytics, nextBlob>>
     /\ IF ~FindActive(db, id)
          THEN /\ res' = [r EXCEPT !.directive = "NotFound"]
               /\ UNCHANGED db
        ELSE IF customDomain.given /\ Truthy(customDomain.value)
                  /\ ~ValidUrl(DomainUrl(customDomain.value))
          THEN /\ res' = [r EXCEPT !.directive = "ValidationError",
                                   !.field = "customDomain"]
               /\ UNCHANGED db
        ELSE IF password.given /\ Truthy(password.value)
                  /\ StrLength(password.value) < MinPasswordLength
          THEN /\ res' = [r EXCEPT !.directive = "ValidationError",
                                   !.field = "password"]
               /\ UNCHANGED db
        ELSE
          LET old == db[id].settings
              new == [allowTracking |-> IF allowTracking.given
                                          THEN allowTracking.flag
                                          ELSE old.allowTracking,
                      customDomain |-> IF customDomain.given
                                         THEN Trim(customDomain.value)
                                         ELSE old.customDomain,
                      password |-> IF password.given THEN password.value
                                   ELSE old.password]
              saved == Save(db, [db[id] EXCEPT !.settings = new],
                            {"settings"}, storeOk)
          IN /\ db' = saved.db
             /\ res' = [r EXCEPT !.directive = IF saved.outcome = "ok"
                                                 THEN "Updated"
                                                 ELSE saved.outcome]

DeleteQR(id, forceDelete, storeOk) ==
  LET r == Res("deleteQR", id, "none")
  IN /\ Served
     /\ UNCHANGED <<analytics, nextBlob>>
     /\ IF id \notin DOMAIN db
          THEN /\ res' = [r EXCEPT !.directive = "NotFound"]
               /\ UNCHANGED <<db, blobs, images>>
        ELSE IF forceDelete
          THEN /\ blobs' = IF db[id].currentContent.type = "file"
                             THEN DeleteFile(blobs,
                                             db[id].currentContent.filePath)
                             ELSE blobs
               /\ images' = DeleteQRCode(images, id)
               /\ IF storeOk
                    THEN /\ db' = [i \in DOMAIN db \ {id} |-> db[i]]
                         /\ res' = [r EXCEPT !.directive = "Deleted"]
                    ELSE /\ UNCHANGED db
                         /\ res' = [r EXCEPT !.directive = "StoreError"]
        ELSE
          LET saved == Save(db, [db[id] EXCEPT !.isActive = FALSE],
                            {"isActive"}, storeOk)
          IN /\ db' = saved.db
             /\ res' = [r EXCEPT !.directive = IF saved.outcome = "ok"
                                                 THEN "Deactivated"
                                                 ELSE saved.outcome]
             /\ UNCHANGED <<blobs, images>>

\* a restore that does not ask whether the record is deactivated
RestoreAny(id, storeOk) ==
  LET r == Res("restoreQR", id, "none")
  IN /\ Served
     /\ UNCHANGED <<blobs, images, analytics, nextBlob>>
     /\ IF id \notin DOMAIN db
          THEN /\ res' = [r EXCEPT !.directive = "NotFound"]
               /\ UNCHANGED db
          ELSE
            LET saved == Save(db, [db[id] EXCEPT !.isActive = TRUE],
                              {"isActive"}, storeOk)
            IN /\ db' = saved.db
               /\ res' = [r EXCEPT !.directive = IF saved.outcome = "ok"
                                                   THEN "Restored"
                                                   ELSE saved.outcome]

RestoreQR(id, storeOk) ==
  LET r == Res("restoreQR", id, "none")
  IN /\ Served
     /\ UNCHANGED <<blobs, images, analytics, nextBlob>>
     /\ IF ~(id \in DOMAIN db /\ ~db[id].isActive)
          THEN /\ res' = [r EXCEPT !.directive = "NotFound"]
               /\ UNCHANGED db
          ELSE
            LET saved == Save(db, [db[id] EXCEPT !.isActive = TRUE],
                              {"isActive"}, storeOk)
            IN /\ db' = saved.db
               /\ res' = [r EXCEPT !.directive = IF saved.outcome = "ok"
                                                   THEN "Restored"
                                                   ELSE saved.outcome]

(***************************************************************************)
(* The read-only endpoints: GET /api/scan-info/:id and GET /api/qr.        *)
(***************************************************************************)
ProtectedNotice == Str("Bu QR code parol bilan himoyalangan", 35)

\* the content fields the JSON of getQRScanInfo discloses for a record
\* without a password (of a contact it tells the name, and only whether a
\* phone and an email exist)
ScanInfoShown(content) ==
  LET base == [NoContent EXCEPT !.type = content.type,
                                !.description = content.description]
  IN CASE content.type = "text" ->
            [base EXCEPT !.text = Substring(content.text, InfoPreviewLength)]
       [] content.type = "link" ->
            [base EXCEPT !.linkTitle = content.linkTitle]
       [] content.type = "file" ->
            [base EXCEPT !.originalName = content.originalName,
                         !.fileSize = content.fileSize,
                         !.mimeType = content.mimeType]
       [] content.type = "contact" ->
            [base EXCEPT !.contactName = content.contactName]
       [] OTHER -> base

\* a scan-info that answers for every record as for one without password
ScanInfoResponseOpen(qr) ==
  [Res("getQRScanInfo", qr.id, "Info") EXCEPT
     !.shown = ScanInfoShown(qr.currentContent),
     !.scanCount = qr.scanCount]

\* the JSON of getQRScanInfo for a record that was found
ScanInfoResponse(qr) ==
  IF Truthy(qr.settings.password)
    THEN [Res("getQRScanInfo", qr.id, "LimitedInfo") EXCEPT
            !.shown = [NoContent EXCEPT !.type = qr.currentContent.type,
                                        !.description = ProtectedNotice],
            !.scanCount = qr.scanCount]
    ELSE [Res("getQRScanInfo", qr.id, "Info") EXCEPT
            !.shown = ScanInfoShown(qr.currentContent),
            !.scanCount = qr.scanCount]

GetQRScanInfo(id) ==
  /\ Served
  /\ UNCHANGED <<db, blobs, images, analytics, nextBlob>>
  /\ res' = IF ~FindActive(db, id)
              THEN Res("getQRScanInfo", id, "NotFound")
              ELSE ScanInfoResponse(db[id])

\* the filter of getAllQRs: active records, of one content type if the
\* query names one
ListFilter(qr, contentType) ==
  /\ qr.isActive
  /\ contentType \notin {"", "all"} => qr.currentContent.type = contentType

\* getAllQRs with the default page and limit: every record that passes the
\* filter is on the first page
GetAllQRs(contentType) ==
  LET r == Res("getAllQRs", "", "none")
  IN /\ Served
     /\ UNCHANGED <<db, blobs, images, analytics, nextBlob>>
     /\ IF contentType \notin {"", "all"} /\ contentType \notin ContentTypes
          THEN res' = [r EXCEPT !.directive = "InvalidContentType",
                                !.field = "contentType"]
          ELSE res' = [r EXCEPT
                         !.directive = "Listed",
                         !.listed = {id \in DOMAIN db :
                                       ListFilter(db[id], contentType)}]

(***************************************************************************)
(* POST /api/qr/bulk-delete.                                               *)
(***************************************************************************)
RECURSIVE BulkDelete(_, _, _, _)
\* the loop of bulkDeleteQRs over the ids that are left; st holds the
\* repository, the blob store, the images and results.success so far
BulkDelete(st, qrIds, forceDelete, storeOk) ==
  IF qrIds = << >> THEN st
  ELSE
    LET id == Head(qrIds)
        rest == Tail(qrIds)
    IN IF id \notin DOMAIN st.db
         THEN BulkDelete(st, rest, forceDelete, storeOk)
       ELSE IF forceDelete
         THEN
           LET qr == st.db[id]
               blobs1 == IF qr.currentContent.type = "file"
                           THEN DeleteFile(st.blobs, qr.currentContent.filePath)
                           ELSE st.blobs
               images1 == DeleteQRCode(st.images, id)
           IN BulkDelete(
                [db |-> IF storeOk
                          THEN [i \in DOMAIN st.db \ {id} |-> st.db[i]]
                          ELSE st.db,
                 blobs |-> blobs1,
                 images |-> images1,
                 success |-> IF storeOk THEN st.success \cup {id}
                             ELSE st.success],
                rest, forceDelete, storeOk)
       ELSE
         LET saved == Save(st.db, [st.db[id] EXCEPT !.isActive = FALSE],
                           {"isActive"}, storeOk)
         IN BulkDelete(
              [st EXCEPT !.db = saved.db,
                         !.success = IF saved.outcome = "ok"
                                       THEN st.success \cup {id}
                                       ELSE st.success],
              rest, forceDelete, storeOk)

BulkDeleteQRs(qrIds, forceDelete, storeOk) ==
  LET r == Res("bulkDeleteQRs", "", "none")
      out == BulkDelete([db |-> db, blobs |-> blobs, images |-> images,
                         success |-> {}],
                        qrIds, forceDelete, storeOk)
  IN /\ Served
     /\ UNCHANGED <<analytics, nextBlob>>
     /\ IF Len(qrIds) = 0 \/ Len(qrIds) > MaxBulk
          THEN /\ res' = [r EXCEPT !.directive = "ValidationError",
                                   !.field = "qrIds"]
               /\ UNCHANGED <<db, blobs, images>>
          ELSE /\ db' = out.db
               /\ blobs' = out.blobs
               /\ images' = out.images
               /\ res' = [r EXCEPT !.directive = "BulkDone",
                                   !.listed = out.success]

(***************************************************************************)
(* The requests.                                                           *)
(***************************************************************************)
Passwords == {NoStr, Secret, OtherSecret}

\* the format parameter of GET /scan/:id
Formats == {"", "vcard", "vcf"}

Uploads == {NoFile, PdfFile(nextBlob), ZipFile(nextBlob)}

\* the candidates generateUniqueId returns to one createQR: the same id
\* every time, or one id on the first MaxIdAttempts - 1 calls and another on
\* the last
CandidateSeqs ==
  {[j \in 1..MaxIdAttempts |-> IF j < MaxIdAttempts THEN a ELSE b] :
     a \in QRIds, b \in QRIds}

Create ==
  \E title \in {Menu, NoStr}, cands \in CandidateSeqs,
     fault \in {"none", "image", "store"} :
    CreateQR(title, NoStr, cands, fault)

FileBody == [BlankRequest EXCEPT !.contentType = "file"]

\* the bodies that are also sent with an upload although their type is not
\* file: an accepted text, a text that is too long, a contact without name,
\* phone and email, and a removal
UploadingRequests ==
  {[BlankRequest EXCEPT !.contentType = "text", !.text = Padded(Hello, 1, 1)],
   [BlankRequest EXCEPT !.contentType = "text", !.text = TooLongText],
   [BlankRequest EXCEPT !.contentType = "contact", !.company = Company],
   [BlankRequest EXCEPT !.contentType = "empty"]}

\* the requests PUT /:id/content is served: every body without an upload,
\* the file body with each upload while the repository accepts the write
\* and while it does not, the bodies above with an upload, and an accepted
\* text while the repository refuses the write
UpdateInputs ==
  {<<body, NoFile, TRUE>> : body \in UpdateRequests}
    \cup {<<FileBody, upload, storeOk>> :
            upload \in Uploads \ {NoFile}, storeOk \in BOOLEAN}
    \cup {<<body, PdfFile(nextBlob), TRUE>> : body \in UploadingRequests}
    \cup {<<[BlankRequest EXCEPT !.contentType = "text", !.text = LongText],
            NoFile, FALSE>>}

Update ==
  \E id \in QRIds, in \in UpdateInputs :
    UpdateQRContent(id, in[1], in[2], in[3])

Scan ==
  \E id \in QRIds, password \in Passwords, format \in Formats,
     storeOk \in BOOLEAN :
    ScanQR(id, password, format, storeOk)

Preview == \E id \in QRIds, password \in Passwords : PreviewQR(id, password)

Redirect ==
  \E id \in QRIds, password \in Passwords, storeOk \in BOOLEAN :
    QuickRedirect(id, password, storeOk)

Settings ==
  \E id \in QRIds,
     allowTracking \in {Undefined, GivenFlag(FALSE)},
     customDomain \in {Undefined},
     password \in {Undefined, GivenStr(Secret), GivenStr(ShortSecret),
                   GivenStr(NoStr)},
     storeOk \in BOOLEAN :
    UpdateQRSettings(id, allowTracking, customDomain, password, storeOk)

Delete ==
  \E id \in QRIds, forceDelete \in BOOLEAN, storeOk \in BOOLEAN :
    DeleteQR(id, forceDelete, storeOk)

Restore == \E id \in QRIds, storeOk \in BOOLEAN : RestoreQR(id, storeOk)

ScanInfo == \E id \in QRIds : GetQRScanInfo(id)

List == \E contentType \in {"", "file", "video"} : GetAllQRs(contentType)

Bulk ==
  \E qrIds \in {<< >>, <<"q1", "q2">>}, forceDelete \in BOOLEAN,
     storeOk \in BOOLEAN :
    BulkDeleteQRs(qrIds, forceDelete, storeOk)

Next ==
  \/ Create
  \/ Update
  \/ Scan
  \/ Preview
  \/ Redirect
  \/ Settings
  \/ Delete
  \/ Restore
  \/ ScanInfo
  \/ List
  \/ Bulk

Spec == Init /\ [][Next]_vars

\* the same system, started with a record whose history is nearly full
SpecAged == InitAged /\ [][Next]_vars


(***************************************************************************)
(* Handlers that run concurrently.  An async handler gives up control at   *)
(* its awaits: between its findOne and the write of its save() another     *)
(* handler may read or write the repository.  Each handler is two steps:   *)
(* the read, and everything from there to the write.                       *)
(***************************************************************************)
\* a save that writes the whole contentHistory array it holds
SaveUpdateWhole(dbv, doc, pushed, storeOk) ==
  IF ~SchemaValid(doc, {"contentHistory", "currentContent"})
    THEN [outcome |-> "ValidationError", db |-> dbv]
  ELSE IF ~storeOk \/ doc.id \notin DOMAIN dbv
    THEN [outcome |-> "StoreError", db |-> dbv]
  ELSE [outcome |-> "ok",
        db |-> [dbv EXCEPT ![doc.id].contentHistory = doc.contentHistory,
                           ![doc.id].currentContent = doc.currentContent]]

\* the save() of updateQRContent against a repository that may have moved
\* on since the document was loaded: currentContent was assigned, which
\* mongoose sends as $set; contentHistory was changed by push(), which it
\* sends as $push of the pushed entries (versionKey is off, the update is
\* matched by _id alone); a history the pre('save') hook has cut is sent
\* as $set
SaveUpdate(dbv, doc, pushed, storeOk) ==
  IF ~SchemaValid(doc, {"contentHistory", "currentContent"})
    THEN [outcome |-> "ValidationError", db |-> dbv]
  ELSE IF ~storeOk \/ doc.id \notin DOMAIN dbv
    THEN [outcome |-> "StoreError", db |-> dbv]
  ELSE
    LET history == IF PreSave(doc) # doc THEN PreSave(doc).contentHistory
                   ELSE dbv[doc.id].contentHistory \o pushed
    IN [outcome |-> "ok",
        db |-> [dbv EXCEPT ![doc.id].contentHistory = history,
                           ![doc.id].currentContent = doc.currentContent]]

\* an insert into a collection without the unique index on id
InsertUnindexed(dbv, doc) ==
  [outcome |-> "ok",
   db |-> [i \in DOMAIN dbv \cup {doc.id} |->
             IF i = doc.id THEN doc ELSE dbv[i]]]

\* the save() of a new document: the unique index on id refuses a second
\* document with the same id
Insert(dbv, doc) ==
  IF doc.id \in DOMAIN dbv
    THEN [outcome |-> "DuplicateKey", db |-> dbv]
    ELSE [outcome |-> "ok",
          db |-> [i \in DOMAIN dbv \cup {doc.id} |->
                    IF i = doc.id THEN doc ELSE dbv[i]]]

\* a step of a concurrent handler takes one tick
Stepped ==
  /\ clock' = clock + 1
  /\ UNCHANGED <<steps, nextBlob, loginAttempts>>

\* handler p is called
Called(p, op, id) ==
  [NotRunning EXCEPT !.op = op, !.id = id]

\* handler p ends with directive d
Ended(p, d) ==
  /\ inflight' = [inflight EXCEPT ![p].pc = "done", ![p].directive = d]
  /\ res' = Res(inflight[p].op, inflight[p].id, d)

\* scanQR up to the await of incrementScan: lookup and password gate
ScanFind(p, id, password) ==
  LET call == Called(p, "scanQR", id)
      d == IF ~FindActive(db, id) THEN "NotFound"
           ELSE IF ~CheckQRPassword(db[id], password) THEN "PasswordRequired"
           ELSE "none"
  IN /\ inflight[p].pc = "idle"
     /\ Stepped
     /\ UNCHANGED <<db, blobs, images, analytics>>
     /\ res' = Res("scanQR", id, d)
     /\ inflight' = [inflight EXCEPT ![p] =
                       IF d = "none"
                         THEN [call EXCEPT !.pc = "loaded", !.doc = db[id]]
                         ELSE [call EXCEPT !.pc = "done", !.directive = d]]

\* the rest of scanQR: the write of incrementScan, analytics, the response
ScanSave(p) ==
  LET qr == IncrementScan(inflight[p].doc, clock)
      saved == Save(db, qr, {"scanCount", "lastScanned"}, TRUE)
  IN /\ inflight[p].pc = "loaded"
     /\ inflight[p].op = "scanQR"
     /\ Stepped
     /\ UNCHANGED <<blobs, images>>
     /\ db' = saved.db
     /\ IF saved.outcome = "ok"
          THEN /\ analytics' = RecordScanAnalytics(analytics, qr, clock)
               /\ Ended(p, Dispatch(Res("scanQR", qr.id, "none"),
                                    qr.currentContent, "", blobs).directive)
          ELSE /\ UNCHANGED analytics
               /\ Ended(p, saved.outcome)

\* updateQRContent up to the return of findOne
UpdateFind(p, id, req) ==
  LET call == [Called(p, "updateQRContent", id) EXCEPT !.req = req]
  IN /\ inflight[p].pc = "idle"
     /\ Stepped
     /\ UNCHANGED <<db, blobs, images, analytics>>
     /\ res' = Res("updateQRContent", id,
                   IF id \in DOMAIN db THEN "none" ELSE "NotFound")
     /\ inflight' = [inflight EXCEPT ![p] =
                       IF id \in DOMAIN db
                         THEN [call EXCEPT !.pc = "loaded", !.doc = db[id]]
                         ELSE [call EXCEPT !.pc = "done",
                                           !.directive = "NotFound"]]

\* the rest of updateQRContent, on the document that was loaded
UpdateSave(p) ==
  LET qr == inflight[p].doc
      req == inflight[p].req
      pushed == <<HistoryEntry(qr.currentContent, clock)>>
      doc == [qr EXCEPT !.contentHistory = qr.contentHistory \o pushed,
                        !.currentContent = NewContent(req, clock)]
      saved == SaveUpdate(db, doc, pushed, TRUE)
  IN /\ inflight[p].pc = "loaded"
     /\ inflight[p].op = "updateQRContent"
     /\ Stepped
     /\ UNCHANGED <<images, analytics>>
     /\ IF req.contentType \notin ContentTypes
          THEN /\ UNCHANGED <<db, blobs>>
               /\ Ended(p, "InvalidContentType")
        ELSE /\ blobs' = CleanupOldFile(blobs, qr, req)
             /\ IF FieldError(req) # ""
                  THEN /\ UNCHANGED db
                       /\ Ended(p, "InvalidContentField")
                  ELSE /\ db' = saved.db
                       /\ Ended(p, IF saved.outcome = "ok" THEN "Updated"
                                   ELSE saved.outcome)

\* createQR up to the end of the allocation loop, when generateUniqueId
\* returns the same candidate on every pass
CreateCheck(p, cand) ==
  LET call == Called(p, "createQR", cand)
  IN /\ inflight[p].pc = "idle"
     /\ Stepped
     /\ UNCHANGED <<db, blobs, images, analytics>>
     /\ res' = Res("createQR", cand,
                   IF cand \in DOMAIN db THEN "AllocationExhausted"
                   ELSE "none")
     /\ inflight' = [inflight EXCEPT ![p] =
                       IF cand \in DOMAIN db
                         THEN [call EXCEPT !.pc = "done",
                                           !.directive = "AllocationExhausted"]
                         ELSE [call EXCEPT !.pc = "loaded"]]

\* the rest of createQR: the image, the insert, the cleanup of the catch
CreateSave(p) ==
  LET id == inflight[p].id
      saved == Insert(db, NewQR(id, Menu, NoStr, clock))
  IN /\ inflight[p].pc = "loaded"
     /\ inflight[p].op = "createQR"
     /\ Stepped
     /\ UNCHANGED <<blobs, analytics>>
     /\ db' = saved.db
     /\ IF saved.outcome = "ok"
          THEN /\ images' = images \cup {id}
               /\ Ended(p, "Created")
          ELSE /\ images' = DeleteQRCode(images \cup {id}, id)
               /\ Ended(p, saved.outcome)

\* the bodies concurrent updates carry
ConcurrentRequests ==
  {[BlankRequest EXCEPT !.contentType = "text", !.text = Padded(Hello, 1, 1)],
   [BlankRequest EXCEPT !.contentType = "link", !.url = Padded(OtherUrl, 1, 0)],
   [BlankRequest EXCEPT !.contentType = "text", !.text = TooLongText]}

BeginScan ==
  \E p \in Procs, id \in QRIds, password \in {NoStr} : ScanFind(p, id, password)

EndScan == \E p \in Procs : ScanSave(p)

BeginUpdate ==
  \E p \in Procs, id \in QRIds, req \in ConcurrentRequests :
    UpdateFind(p, id, req)

EndUpdate == \E p \in Procs : UpdateSave(p)

BeginCreate == \E p \in Procs, cand \in QRIds : CreateCheck(p, cand)

EndCreate == \E p \in Procs : CreateSave(p)

NextConcurrent ==
  \/ BeginScan
  \/ EndScan
  \/ BeginUpdate
  \/ EndUpdate
  \/ BeginCreate
  \/ EndCreate

\* record q1 after its creation and one PDF upload, no handler running yet
InitConcurrent ==
  /\ db = Aged(1).db
  /\ blobs = Aged(1).blobs
  /\ images = {"q1"}
  /\ clock = 3
  /\ nextBlob = SeedBlob + 1
  /\ Quiet

SpecConcurrent == InitConcurrent /\ [][NextConcurrent]_vars


(***************************************************************************)
(* Login and its rate limit (authController.js).  loginAttempts maps a     *)
(* client identifier to [count, lastAttempt]; the clock counts minutes.    *)
(***************************************************************************)
MaxLoginAttempts == 5

\* LOCKOUT_TIME, in minutes
LockoutTime == 15

\* the logins of one behaviour
MaxLogins == 6

Clients == {"ip1", "ip2"}

\* ADMIN_USERNAME and ADMIN_PASSWORD of the environment
AdminUsername == "admin"

AdminPassword == "secret"

\* a string of a login body: what was sent, its length, and what trim()
\* (and, for a username, toLowerCase()) make of it
LoginStr(raw, len, clean) == [raw |-> raw, len |-> len, clean |-> clean]

\* the bodies of POST /login: <<username, password>>
Credentials ==
  {<<LoginStr(" Admin ", 7, "admin"), LoginStr("secret ", 7, "secret")>>,
   <<LoginStr("admin", 5, "admin"), LoginStr("Secret", 6, "Secret")>>,
   <<LoginStr("admin", 5, "admin"), LoginStr("", 0, "")>>}

\* the minutes that pass before a login
Elapsed == {14, 15}

\* validateLoginInput: does it throw
BadLoginInput(c) ==
  \/ c[1].len = 0
  \/ c[2].len = 0
  \/ c[1].len > 100
  \/ c[2].len > 200

\* the credentials check of login
IsAuthenticated(c) ==
  /\ c[1].clean = AdminUsername
  /\ c[2].clean = AdminPassword

\* Map.delete
MapDelete(m, k) == [i \in DOMAIN m \ {k} |-> m[i]]

\* Map.set
MapSet(m, k, v) == [i \in DOMAIN m \cup {k} |-> IF i = k THEN v ELSE m[i]]

\* loginAttempts.get(identifier) || { count: 0, lastAttempt: now }
AttemptsOf(m, identifier, now) ==
  IF identifier \in DOMAIN m THEN m[identifier]
  ELSE [count |-> 0, lastAttempt |-> now]

\* a rate limit that never rejects
CheckRateLimitOff(m, identifier, now) ==
  [limited |-> FALSE, attempts |-> m]

\* a rate limit whose lockout never ends
CheckRateLimitForever(m, identifier, now) ==
  [limited |-> AttemptsOf(m, identifier, now).count >= MaxLoginAttempts,
   attempts |-> m]

\* checkRateLimit: throws 429 inside the lockout, forgets the identifier
\* once the lockout is over
CheckRateLimit(m, identifier, now) ==
  LET attempts == AttemptsOf(m, identifier, now)
  IN IF attempts.count >= MaxLoginAttempts
       THEN IF now - attempts.lastAttempt < LockoutTime
              THEN [limited |-> TRUE, attempts |-> m]
              ELSE [limited |-> FALSE, attempts |-> MapDelete(m, identifier)]
       ELSE [limited |-> FALSE, attempts |-> m]

\* recordLoginAttempt
RecordLoginAttempt(m, identifier, success, now) ==
  IF success THEN MapDelete(m, identifier)
  ELSE MapSet(m, identifier,
              [count |-> AttemptsOf(m, identifier, now).count + 1,
               lastAttempt |-> now])

\* POST /login from client ip, elapsed minutes after the last request;
\* configured: the environment holds the admin credentials
Login(ip, c, configured, elapsed) ==
  LET now == clock + elapsed
      checked == CheckRateLimit(loginAttempts, ip, now)
      d == IF BadLoginInput(c) THEN "BadRequest"
           ELSE IF checked.limited THEN "RateLimited"
           ELSE IF ~configured THEN "ServerError"
           ELSE IF IsAuthenticated(c) THEN "LoggedIn"
           ELSE "Unauthorized"
  IN /\ steps < MaxLogins
     /\ steps' = steps + 1
     /\ clock' = now
     /\ UNCHANGED <<db, blobs, images, analytics, nextBlob>>
     /\ loginAttempts' =
          IF d \in {"BadRequest", "RateLimited"} THEN loginAttempts
          ELSE IF d = "ServerError" THEN checked.attempts
          ELSE RecordLoginAttempt(checked.attempts, ip, IsAuthenticated(c), now)
     /\ inflight' = [inflight EXCEPT !["p1"] =
                       [NotRunning EXCEPT !.pc = "done", !.op = "login",
                                          !.id = ip, !.req = c,
                                          !.doc = IF d = "BadRequest"
                                                    THEN NotRunning.doc
                                                    ELSE AttemptsOf(
                                                      loginAttempts, ip, now),
                                          !.directive = d]]
     /\ res' = [Res("login", ip, d) EXCEPT
                  !.shown = IF d = "LoggedIn" THEN c[1].clean ELSE ""]

NextAuth ==
  \E ip \in Clients, c \in Credentials, configured \in BOOLEAN,
     elapsed \in Elapsed :
    Login(ip, c, configured, elapsed)

\* the server has just started: no login was attempted yet
InitAuth ==
  /\ db = << >>
  /\ blobs = {}
  /\ images = {}
  /\ clock = 0
  /\ nextBlob = 1
  /\ Quiet

SpecAuth == InitAuth /\ [][NextAuth]_vars


(***************************************************************************)
(* Properties.                                                             *)
(***************************************************************************)
\* the step is a file update of record id that carries an upload
FileUpdateStep(id) ==
  \E upload \in Uploads \ {NoFile}, storeOk \in BOOLEAN :
    UpdateQRContent(id, FileBody, upload, storeOk)

\* the step is a content update of record id that carries an upload
UploadingUpdateStep(id) ==
  \E body \in UpdateRequests, upload \in Uploads \ {NoFile},
     storeOk \in BOOLEAN :
    UpdateQRContent(id, body, upload, storeOk)

ActiveBlob(id) == db[id].currentContent.filePath

HasActiveBlob(id) ==
  /\ id \in DOMAIN db
  /\ db[id].currentContent.type = "file"
  /\ ActiveBlob(id) \in blobs

\* C1: when an update of a file record to a newly uploaded file fails to
\* persist, the old blob is still in the blob store and the persisted record
\* still references it.
C1_OldBlobKeptWhenSaveFails ==
  [][\A id \in QRIds :
       (/\ res'.op = "updateQRContent"
        /\ res'.directive \in {"StoreError", "ValidationError"}
        /\ HasActiveBlob(id)
        /\ FileUpdateStep(id))
       => /\ ActiveBlob(id) \in blobs'
          /\ db'[id].currentContent.filePath = ActiveBlob(id)]_vars

\* C2: after a successful update of a file record (blob B1) to a newly
\* uploaded file (blob B2) the persisted active content references B2, B2
\* is in the blob store and B1 is not.
C2_SuccessfulFileSwap ==
  [][\A id \in QRIds :
       (/\ res'.op = "updateQRContent"
        /\ res'.directive = "Updated"
        /\ HasActiveBlob(id)
        /\ FileUpdateStep(id))
       => /\ db'[id].currentContent.type = "file"
          /\ db'[id].currentContent.filePath = nextBlob
          /\ nextBlob \in blobs'
          /\ ActiveBlob(id) \notin blobs']_vars

C2_Witness ==
  /\ res.op = "updateQRContent"
  /\ res.directive = "Updated"
  /\ db[res.id].currentContent.type = "file"
  /\ db[res.id].currentContent.filePath \in blobs
  /\ LET h == db[res.id].contentHistory
     IN /\ h[Len(h)].type = "file"
        /\ h[Len(h)].content.filePath # db[res.id].currentContent.filePath
        /\ h[Len(h)].content.filePath \notin blobs

\* C3: an update rejected by validation leaves the persisted records
\* unchanged and deletes no blob; a file record's active blob survives a
\* rejected request that carried an upload.
C3_RejectionChangesNothing ==
  [][(/\ res'.op = "updateQRContent"
      /\ res'.directive \in {"InvalidContentType", "InvalidContentField",
                             "ValidationError"})
     => /\ db' = db
        /\ blobs \subseteq blobs'
        /\ \A id \in QRIds :
             (HasActiveBlob(id) /\ UploadingUpdateStep(id))
               => ActiveBlob(id) \in blobs']_vars

\* C4: the history of every persisted record holds at most 50 entries.
C4_HistoryBounded ==
  \A id \in DOMAIN db : Len(db[id].contentHistory) <= 50

C4_Witness ==
  /\ res.op = "updateQRContent"
  /\ res.directive = "Updated"
  /\ Len(db[res.id].contentHistory) = 50

\* the step is a content update of record id with a request that passes
\* every validation rule of its tag, served while the repository accepts
\* writes
ValidUpdateStep(id) ==
  \E body \in UpdateRequests, upload \in Uploads :
    /\ FieldError([body EXCEPT !.file = upload]) = ""
    /\ ContentValid(NewContent([body EXCEPT !.file = upload], clock))
    /\ UpdateQRContent(id, body, upload, TRUE)

\* C5: a valid update of a record whose history holds 50 entries succeeds;
\* afterwards the history holds 50 entries: the old ones without the oldest,
\* in order, then the previously active variant.
C5_FullHistoryEvictsOldest ==
  [][\A id \in QRIds :
       (/\ res'.op = "updateQRContent"
        /\ id \in DOMAIN db
        /\ Len(db[id].contentHistory) = 50
        /\ ValidUpdateStep(id))
       => /\ res'.directive = "Updated"
          /\ Len(db'[id].contentHistory) = 50
          /\ \A k \in 1..49 :
               db'[id].contentHistory[k] = db[id].contentHistory[k + 1]
          /\ db'[id].contentHistory[50].content = db[id].currentContent]_vars


\* C6: every persisted record has an active content with one of the five
\* tags, and a record that has just been created has the empty tag.
C6_ExactlyOneTag ==
  /\ \A id \in DOMAIN db :
       db[id].currentContent.type \in
         {"empty", "text", "link", "file", "contact"}
  /\ res.directive = "Created" =>
       /\ res.id \in DOMAIN db
       /\ db[res.id].currentContent.type = "empty"

C6_Witness ==
  /\ res.op = "createQR"
  /\ res.directive = "Created"
  /\ res.id \in DOMAIN db
  /\ db[res.id].currentContent.type = "empty"
  /\ db[res.id].contentHistory = << >>

\* t is s without its surrounding whitespace
IsTrimmed(s, t) ==
  t.pre = 0 /\ t.post = 0 /\ t.core = s.core /\ t.len = s.len

\* C7: after a successful update with tag T and fields F the active content
\* has tag T and the trimmed fields F, and the newest history entry is the
\* variant that was active before the update, unchanged.
C7_UpdateRoundTrip ==
  [][\A id \in QRIds :
       (/\ res'.op = "updateQRContent"
        /\ res'.directive = "Updated"
        /\ res'.id = id)
       => \A body \in UpdateRequests, upload \in Uploads :
            UpdateQRContent(id, body, upload, TRUE) =>
              LET c == db'[id].currentContent
                  h == db'[id].contentHistory
              IN /\ c.type = body.contentType
                 /\ c.type = "text" => IsTrimmed(body.text, c.text)
                 /\ c.type = "link" => IsTrimmed(body.url, c.url)
                 /\ c.type = "file" =>
                      /\ c.filePath = upload.path
                      /\ c.originalName = upload.originalname
                      /\ c.fileSize = upload.size
                      /\ c.mimeType = upload.mimetype
                 /\ c.type = "contact" =>
                      /\ IsTrimmed(body.contactName, c.contactName)
                      /\ IsTrimmed(body.phone, c.phone)
                      /\ IsTrimmed(body.email, c.email)
                      /\ IsTrimmed(body.company, c.company)
                 /\ Len(h) >= 1
                 /\ h[Len(h)].type = db[id].currentContent.type
                 /\ h[Len(h)].content = db[id].currentContent]_vars

C7_Witness ==
  /\ res.op = "updateQRContent"
  /\ res.directive = "Updated"
  /\ db[res.id].currentContent.type = "text"
  /\ db[res.id].currentContent.text = Hello
  /\ LET h == db[res.id].contentHistory
     IN h[Len(h)].type \in {"file", "link"}

\* the directives the content resolution of the dispatcher ends in
ContentDirectives == {"Render", "Redirect", "Stream", "Export", "BlobMissing"}

IsProtected(id) == FindActive(db, id) /\ Truthy(db[id].settings.password)

\* C8: a counted scan of a password-protected record with an absent or
\* wrong password returns PasswordRequired, leaves scanCount and lastScanned
\* unchanged and emits no analytics; with the matching password it returns
\* a directive of the content resolution.
C8_ScanPasswordGate ==
  [][\A id \in QRIds :
       (res'.op = "scanQR" /\ IsProtected(id))
       => \A password \in Passwords, format \in {"", "vcard"} :
            ScanQR(id, password, format, TRUE) =>
              IF password = db[id].settings.password
                THEN res'.directive \in ContentDirectives
                ELSE /\ res'.directive = "PasswordRequired"
                     /\ db'[id].scanCount = db[id].scanCount
                     /\ db'[id].lastScanned = db[id].lastScanned
                     /\ analytics' = analytics]_vars

C8_Witness ==
  /\ res.op = "scanQR"
  /\ res.directive = "PasswordRequired"
  /\ res.id \in DOMAIN db
  /\ Truthy(db[res.id].settings.password)
  /\ db[res.id].scanCount = 0
  /\ db[res.id].lastScanned = 0
  /\ analytics = {}

\* C9: a preview of a password-protected record without the matching
\* password returns PasswordRequired and none of the record's content.
C9_PreviewPasswordGate ==
  [][\A id \in QRIds :
       (res'.op = "previewQR" /\ IsProtected(id))
       => \A password \in Passwords :
            (PreviewQR(id, password) /\ password # db[id].settings.password)
              => /\ res'.directive = "PasswordRequired"
                 /\ res'.shown = NoContent]_vars

\* C10: a short redirect to a password-protected link record without the
\* matching password does not redirect to the stored URL and does not
\* increment scanCount.
C10_RedirectPasswordGate ==
  [][\A id \in QRIds :
       (/\ res'.op = "quickRedirect"
        /\ IsProtected(id)
        /\ db[id].currentContent.type = "link")
       => \A password \in Passwords, storeOk \in BOOLEAN :
            (/\ QuickRedirect(id, password, storeOk)
             /\ password # db[id].settings.password)
              => /\ res'.location # db[id].currentContent.url
                 /\ db'[id].scanCount = db[id].scanCount]_vars


\* the step leaves every persisted record as it is
RecordsUnchanged == db' = db

\* C11: a preview access, for a record of any tag and however often it is
\* repeated, leaves scanCount, lastScanned, history and active content of
\* every record unchanged.
C11_PreviewChangesNothing ==
  [][\A id \in QRIds, password \in Passwords :
       (res'.op = "previewQR" /\ PreviewQR(id, password))
       => /\ DOMAIN db' = DOMAIN db
          /\ \A i \in DOMAIN db :
               /\ db'[i].scanCount = db[i].scanCount
               /\ db'[i].lastScanned = db[i].lastScanned
               /\ db'[i].contentHistory = db[i].contentHistory
               /\ db'[i].currentContent = db[i].currentContent]_vars

\* a second request in a row rendered a preview of a record that was never
\* counted
C11_Witness ==
  /\ res.op = "previewQR"
  /\ res.directive = "Render"
  /\ steps >= 2
  /\ res.id \in DOMAIN db
  /\ db[res.id].scanCount = 0
  /\ db[res.id].lastScanned = 0

\* the record id exists before and after the step
Persists(id) == id \in DOMAIN db /\ id \in DOMAIN db'

\* C12: no operation decreases a record's scanCount; a scan that passes
\* lookup and the password gate increases scanCount by exactly 1 and sets
\* lastScanned to the time of the access; lastScanned is absent as long as
\* scanCount is 0.
C12_ScanCountMonotonic ==
  /\ [](\A id \in DOMAIN db :
          db[id].scanCount = 0 => db[id].lastScanned = 0)
  /\ [][\A id \in QRIds :
          /\ Persists(id) => db'[id].scanCount >= db[id].scanCount
          /\ \A password \in Passwords, format \in {"", "vcard"} :
               (/\ res'.op = "scanQR"
                /\ ScanQR(id, password, format, TRUE)
                /\ id \in DOMAIN db
                /\ db[id].isActive
                /\ \/ ~Truthy(db[id].settings.password)
                   \/ password = db[id].settings.password)
               => /\ db'[id].scanCount = db[id].scanCount + 1
                  /\ db'[id].lastScanned = clock]_vars

\* a record has been counted twice
C12_Witness ==
  /\ res.op = "scanQR"
  /\ res.directive \in ContentDirectives
  /\ res.id \in DOMAIN db
  /\ db[res.id].scanCount = 2
  /\ db[res.id].lastScanned = clock - 1

\* record id is soft-deleted
SoftDeleted(id) == id \in DOMAIN db /\ ~db[id].isActive

\* C13: for a soft-deleted record scan, preview, short redirect and
\* scan-info return NotFound and change neither scanCount nor lastScanned;
\* a listing never contains a soft-deleted record.
C13_SoftDeletedIsHidden ==
  [][/\ \A id \in QRIds :
          (/\ SoftDeleted(id)
           /\ \/ \E password \in Passwords, format \in {"", "vcard"},
                    storeOk \in BOOLEAN :
                   ScanQR(id, password, format, storeOk)
              \/ \E password \in Passwords : PreviewQR(id, password)
              \/ \E password \in Passwords, storeOk \in BOOLEAN :
                   QuickRedirect(id, password, storeOk)
              \/ GetQRScanInfo(id))
          => /\ res'.directive = "NotFound"
             /\ Persists(id)
             /\ db'[id].scanCount = db[id].scanCount
             /\ db'[id].lastScanned = db[id].lastScanned
     /\ (\E contentType \in {"", "file", "video"} : GetAllQRs(contentType))
          => \A id \in res'.listed : id \in DOMAIN db /\ db[id].isActive]_vars

\* a scan of a soft-deleted record was answered with NotFound
C13_Witness ==
  /\ res.op = "scanQR"
  /\ res.directive = "NotFound"
  /\ res.id \in DOMAIN db
  /\ ~db[res.id].isActive

\* C14: a soft delete changes nothing of the record but its active flag and
\* removes no record, blob or image; a restore of a soft-deleted record
\* changes nothing but the flag, after which the record resolves again, so
\* that id, title, active content, history, scanCount and settings are
\* what they were before the soft delete; a restore of a record that is
\* active fails with NotFound and changes nothing.
C14_SoftDeleteRestore ==
  [][\A id \in QRIds :
       /\ (id \in DOMAIN db /\ DeleteQR(id, FALSE, TRUE))
            => /\ db' = [db EXCEPT ![id].isActive = FALSE]
               /\ blobs' = blobs
               /\ images' = images
       /\ (SoftDeleted(id) /\ RestoreQR(id, TRUE))
            => /\ res'.directive = "Restored"
               /\ db' = [db EXCEPT ![id].isActive = TRUE]
               /\ blobs' = blobs
               /\ images' = images
       /\ (id \in DOMAIN db /\ db[id].isActive
             /\ \E storeOk \in BOOLEAN : RestoreQR(id, storeOk))
            => /\ res'.directive = "NotFound"
               /\ RecordsUnchanged
               /\ blobs' = blobs
               /\ images' = images]_vars

\* a soft-deleted record has been restored
C14_Witness ==
  /\ res.op = "restoreQR"
  /\ res.directive = "Restored"
  /\ res.id \in DOMAIN db
  /\ db[res.id].isActive
  /\ steps >= 2

\* the blobs the active file variants of the records ids refer to
ActiveBlobs(ids) ==
  {db[i].currentContent.filePath :
     i \in {j \in ids \cap DOMAIN db : db[j].currentContent.type = "file"}}

\* C15: after a successful hard delete, single or in bulk, the record is
\* absent from the repository and the blob of its active file variant is
\* absent from the blob store, while every other blob, the ones its history
\* refers to included, is still there.
C15_HardDelete ==
  [][/\ \A id \in QRIds :
          (id \in DOMAIN db /\ DeleteQR(id, TRUE, TRUE))
          => /\ res'.directive = "Deleted"
             /\ DOMAIN db' = DOMAIN db \ {id}
             /\ blobs' = blobs \ ActiveBlobs({id})
     /\ BulkDeleteQRs(<<"q1", "q2">>, TRUE, TRUE)
          => /\ DOMAIN db' = {}
             /\ blobs' = blobs \ ActiveBlobs(QRIds)]_vars

\* record q1 has been hard-deleted and the seeded blob, which only its
\* history referred to, is still in the blob store
C15_Witness ==
  /\ res.op = "deleteQR"
  /\ res.directive = "Deleted"
  /\ res.id = "q1"
  /\ "q1" \notin DOMAIN db
  /\ SeedBlob \in blobs

Faults == {"none", "image", "store"}

\* C16: allocation looks at no more than 5 candidates: when one of the
\* first 5 is not in the repository the first such candidate becomes the
\* id; when all 5 exist, creation fails with AllocationExhausted and
\* creates neither a record nor an image.
C16_IdAllocation ==
  [][\A cands \in CandidateSeqs, fault \in Faults :
       (res'.op = "createQR" /\ CreateQR(Menu, NoStr, cands, fault))
       => IF \E k \in 1..5 : cands[k] \notin DOMAIN db
            THEN \E k \in 1..5 :
                   /\ cands[k] \notin DOMAIN db
                   /\ \A j \in 1..(k - 1) : cands[j] \in DOMAIN db
                   /\ res'.id = cands[k]
                   /\ fault = "none"
                        => /\ res'.directive = "Created"
                           /\ DOMAIN db' = DOMAIN db \cup {cands[k]}
            ELSE /\ res'.directive = "AllocationExhausted"
                 /\ db' = db
                 /\ images' = images]_vars

\* a creation ran out of candidates
C16_Witness ==
  /\ res.op = "createQR"
  /\ res.directive = "AllocationExhausted"
  /\ DOMAIN db = QRIds

C18_IdentityImmutable ==
  [][\A id \in QRIds :
       Persists(id) => /\ db'[id].id = db[id].id
                       /\ db'[id].qrCodePath = db[id].qrCodePath
                       /\ db'[id].createdDate = db[id].createdDate]_vars

\* a record that has been updated and then scanned
C18_Witness ==
  /\ res.op = "scanQR"
  /\ res.directive \in ContentDirectives
  /\ res.id \in DOMAIN db
  /\ db[res.id].id = res.id
  /\ db[res.id].qrCodePath = QrPath(res.id)
  /\ db[res.id].contentHistory # << >>
  /\ db[res.id].scanCount > 0
  /\ db[res.id].createdDate < db[res.id].currentContent.lastUpdated

\* C19: a text update is accepted exactly when the trimmed text has between
\* 1 and 5000 characters.
C19_TextLengthBoundary ==
  [][\A id \in QRIds, body \in TextRequests :
       (id \in DOMAIN db /\ UpdateQRContent(id, body, NoFile, TRUE))
       => (res'.directive = "Updated"
             <=> StrLength(Trim(body.text)) \in 1..5000)]_vars

\* C20: every persisted active contact variant has a non-empty name, phone
\* or email, and a contact update that supplies none of them is rejected
\* and changes no record and removes no blob.
C20_ContactHasIdentity ==
  /\ [](\A id \in DOMAIN db :
          db[id].currentContent.type = "contact"
          => \/ Truthy(db[id].currentContent.contactName)
             \/ Truthy(db[id].currentContent.phone)
             \/ Truthy(db[id].currentContent.email))
  /\ [][\A id \in QRIds, body \in ContactRequests, upload \in Uploads,
           storeOk \in BOOLEAN :
          (/\ UpdateQRContent(id, body, upload, storeOk)
           /\ ~Truthy(body.contactName)
           /\ ~Truthy(body.phone)
           /\ ~Truthy(body.email))
          => /\ res'.directive \in {"NotFound", "InvalidContentField"}
             /\ RecordsUnchanged
             /\ blobs \subseteq blobs']_vars

\* the step is a scan of record id that finds the record active, passes the
\* password gate and is written by the repository
CountedScan(id, password, format) ==
  /\ res'.op = "scanQR"
  /\ id \in DOMAIN db
  /\ db[id].isActive
  /\ \/ ~Truthy(db[id].settings.password)
     \/ password = db[id].settings.password
  /\ ScanQR(id, password, format, TRUE)

\* C21: a counted scan answers with the one directive the active tag
\* determines: empty and text render, link redirects to the stored URL,
\* file streams or reports the missing blob, contact exports for the
\* formats vcard and vcf and renders otherwise.
C21_DispatchByTag ==
  [][\A id \in QRIds, password \in Passwords, format \in Formats :
       CountedScan(id, password, format)
       => LET c == db[id].currentContent
          IN /\ c.type = "empty" =>
                  /\ res'.directive = "Render"
                  /\ res'.shown.type = "empty"
             /\ c.type = "text" =>
                  /\ res'.directive = "Render"
                  /\ res'.shown.text = c.text
             /\ c.type = "link" =>
                  /\ res'.directive = "Redirect"
                  /\ res'.location = c.url
             /\ c.type = "file" =>
                  res'.directive \in {"Stream", "BlobMissing"}
             /\ c.type = "contact" =>
                  /\ res'.directive =
                       IF format \in {"vcard", "vcf"} THEN "Export"
                       ELSE "Render"
                  /\ res'.shown.contactName = c.contactName
             /\ c.type \in ContentTypes]_vars

\* a contact record has been exported as a vCard
C21_Witness ==
  /\ res.op = "scanQR"
  /\ res.directive = "Export"
  /\ res.id \in DOMAIN db
  /\ db[res.id].currentContent.type = "contact"
  /\ res.shown.contactName = db[res.id].currentContent.contactName

PdfMime == Mime("application", "pdf")

MimeSamples ==
  {PdfMime, Mime("application", "zip"), Mime("application", "json"),
   Mime("image", "png"), Mime("text", "plain"), Mime("video", "mp4"),
   Mime("audio", "mpeg")}

\* the disposition the statement gives a mime type
DispositionOf(m) ==
  IF m = PdfMime \/ m.family \in {"image", "text", "video", "audio"}
    THEN "inline" ELSE "attachment"

\* C22: the Stream directive of a file record whose blob exists carries the
\* stored mime type and size; its disposition is inline exactly for
\* application/pdf and the image, text, video and audio families; a record
\* that was created and updated to a PDF file answers its first counted
\* scan with Stream, inline, application/pdf and scanCount 1.
C22_StreamDisposition ==
  /\ [](\A m \in MimeSamples :
          IsViewable(m) <=> DispositionOf(m) = "inline")
  /\ [][\A id \in QRIds, password \in Passwords, format \in Formats :
          (/\ CountedScan(id, password, format)
           /\ db[id].currentContent.type = "file"
           /\ db[id].currentContent.filePath \in blobs)
          => LET c == db[id].currentContent
             IN /\ res'.directive = "Stream"
                /\ res'.shown.mimeType = c.mimeType
                /\ res'.shown.fileSize = c.fileSize
                /\ res'.disposition = DispositionOf(c.mimeType)
                /\ res'.scanCount = db[id].scanCount + 1
                /\ db'[id].scanCount = db[id].scanCount + 1]_vars

\* the record created as "Menu" and updated once, to a PDF file, has been
\* scanned once
C22_Witness ==
  /\ res.op = "scanQR"
  /\ res.directive = "Stream"
  /\ res.disposition = "inline"
  /\ res.shown.mimeType = PdfMime
  /\ res.scanCount = 1
  /\ res.id \in DOMAIN db
  /\ db[res.id].title = Menu
  /\ Len(db[res.id].contentHistory) = 1
  /\ db[res.id].scanCount = 1

\* C23: a counted scan of a file record whose blob is not in the blob store
\* answers BlobMissing, which is neither NotFound nor Stream; the scan is
\* counted, and nothing else changes.
C23_BlobMissing ==
  [][\A id \in QRIds, password \in Passwords, format \in Formats :
       (/\ CountedScan(id, password, format)
        /\ db[id].currentContent.type = "file"
        /\ db[id].currentContent.filePath \notin blobs)
       => /\ res'.directive = "BlobMissing"
          /\ res'.directive \notin {"NotFound", "Stream"}
          /\ db' = [db EXCEPT ![id].scanCount = db[id].scanCount + 1,
                              ![id].lastScanned = clock]
          /\ blobs' = blobs
          /\ images' = images]_vars

\* a file record without its blob has been scanned
C23_Witness ==
  /\ res.op = "scanQR"
  /\ res.directive = "BlobMissing"
  /\ res.id \in DOMAIN db
  /\ db[res.id].currentContent.type = "file"
  /\ db[res.id].currentContent.filePath \notin blobs
  /\ db[res.id].scanCount = 1

\* the handlers of kind op that have ended on record id with directive in ds
Finished(op, id, ds) ==
  {p \in Procs : /\ inflight[p].pc = "done"
                 /\ inflight[p].op = op
                 /\ inflight[p].id = id
                 /\ inflight[p].directive \in ds}

\* the directives of a scan that was counted
CountedDirectives ==
  {"Redirect", "Render", "Stream", "Export", "BlobMissing"}

\* C24: the write of a counted scan changes scanCount and lastScanned of its
\* record and nothing else in the repository, the blobs or the images, also
\* when the record's content was replaced between the scan's read and its
\* write: the content found at the time of the write stays
C24_ScanWritesOnlyCounters ==
  [][\A p \in Procs :
       ScanSave(p) =>
         LET id == inflight[p].id
         IN /\ DOMAIN db' = DOMAIN db
            /\ \A i \in DOMAIN db \ {id} : db'[i] = db[i]
            /\ id \in DOMAIN db =>
                 /\ db'[id] = [db[id] EXCEPT
                                 !.scanCount = inflight[p].doc.scanCount + 1,
                                 !.lastScanned = clock]
                 /\ db'[id].currentContent = db[id].currentContent
                 /\ db'[id].contentHistory = db[id].contentHistory
            /\ blobs' = blobs
            /\ images' = images]_vars

\* a scan read the record, an update replaced the content, the scan wrote
C24_Witness ==
  \E p \in Finished("scanQR", "q1", CountedDirectives) :
    /\ Finished("updateQRContent", "q1", {"Updated"}) # {}
    /\ inflight[p].doc.currentContent # db["q1"].currentContent
    /\ db["q1"].lastScanned > db["q1"].currentContent.lastUpdated
    /\ db["q1"].scanCount = inflight[p].doc.scanCount + 1

\* C25: scanCount of a record never exceeds the number of counted scans of
\* it that have ended (the records start and are created with scanCount 0)
C25_NoOvercount ==
  \A id \in DOMAIN db :
    db[id].scanCount <= Cardinality(Finished("scanQR", id, CountedDirectives))

\* the lost update: two counted scans have ended, scanCount went up by one
C25_Witness ==
  /\ Finished("scanQR", "q1", CountedDirectives) = Procs
  /\ db["q1"].scanCount = 1

\* both handlers updated record id, and both had loaded it in the same state
RacedUpdates(id) ==
  /\ Finished("updateQRContent", id, {"Updated"}) = Procs
  /\ \A p, q \in Procs : inflight[p].doc = inflight[q].doc
  /\ id \in DOMAIN db

\* the state in which the racing updates loaded record id
Loaded(id) == inflight[CHOOSE p \in Procs : TRUE].doc

\* C26 as stated: after two racing updates the active content is the last
\* writer's and the history has grown by one entry
C26_HistoryGrowsByOne ==
  \A id \in QRIds :
    RacedUpdates(id) =>
      /\ \E p \in Procs :
           db[id].currentContent
             = NewContent(inflight[p].req, db[id].currentContent.lastUpdated)
      /\ \A k \in DOMAIN db[id].contentHistory :
           db[id].contentHistory[k].changedAt
             <= db[id].currentContent.lastUpdated
      /\ Len(db[id].contentHistory) = Len(Loaded(id).contentHistory) + 1

\* C26: after two racing updates the active content is the last writer's
\* and the history has grown by two entries, both holding the content that
\* was active before the race
C26_HistoryGrowsByTwo ==
  \A id \in QRIds :
    RacedUpdates(id) =>
      LET h == db[id].contentHistory
          n == Len(Loaded(id).contentHistory)
      IN /\ Len(h) = n + 2
         /\ SubSeq(h, 1, n) = Loaded(id).contentHistory
         /\ \A k \in {n + 1, n + 2} :
              h[k].content = Loaded(id).currentContent
         /\ db[id].currentContent.lastUpdated = h[n + 2].changedAt
         /\ \E p \in Procs :
              db[id].currentContent
                = NewContent(inflight[p].req, h[n + 2].changedAt)

\* two updates with different contents raced on q1
C26_Witness ==
  /\ RacedUpdates("q1")
  /\ \A p, q \in Procs : p # q => inflight[p].req # inflight[q].req
  /\ Len(db["q1"].contentHistory) = Len(Loaded("q1").contentHistory) + 2

\* C27: the repository holds one record per id (a record is stored under its
\* id), and of the creations that ended for an id at most one reported
\* success, and that one's record is in the repository
C27_UniqueIds ==
  /\ \A id \in DOMAIN db : db[id].id = id
  /\ \A id \in QRIds :
       /\ Cardinality(Finished("createQR", id, {"Created"})) <= 1
       /\ Finished("createQR", id, {"Created"}) # {} => id \in DOMAIN db

\* two creations passed the uniqueness check with the same candidate: one
\* persisted, the insert of the other was refused
C27_Witness ==
  /\ Finished("createQR", "q2", {"Created"}) # {}
  /\ Finished("createQR", "q2", {"DuplicateKey"}) # {}
  /\ "q2" \in DOMAIN db

\* client ip is inside its lockout at time now
Locked(ip, now) ==
  /\ ip \in DOMAIN loginAttempts
  /\ loginAttempts[ip].count >= MaxLoginAttempts
  /\ now - loginAttempts[ip].lastAttempt < LockoutTime

\* the lockout of client ip is over at time now
Expired(ip, now) ==
  /\ ip \in DOMAIN loginAttempts
  /\ loginAttempts[ip].count >= MaxLoginAttempts
  /\ now - loginAttempts[ip].lastAttempt >= LockoutTime

\* the failures held against client ip in the map m
FailureCount(m, ip) == IF ip \in DOMAIN m THEN m[ip].count ELSE 0

C29_Recovery ==
  [][\A ip \in Clients, c \in Credentials, elapsed \in Elapsed :
       (/\ res'.op = "login"
        /\ res'.id = ip
        /\ inflight'["p1"].req = c
        /\ clock' = clock + elapsed
        /\ Login(ip, c, TRUE, elapsed)
        /\ ~BadLoginInput(c)) =>
         /\ Expired(ip, clock') =>
              IF IsAuthenticated(c)
                THEN /\ res'.directive = "LoggedIn"
                     /\ ip \notin DOMAIN loginAttempts'
                ELSE /\ res'.directive = "Unauthorized"
                     /\ loginAttempts'[ip]
                          = [count |-> 1, lastAttempt |-> clock']
         /\ res'.directive = "LoggedIn" => ip \notin DOMAIN loginAttempts'
         /\ (ip \notin DOMAIN loginAttempts /\ ~IsAuthenticated(c)) =>
              loginAttempts'[ip] = [count |-> 1, lastAttempt |-> clock']]_vars

\* a locked-out client failed again 15 minutes after its fifth failure and
\* is held to one failure
C29_Witness ==
  /\ inflight["p1"].op = "login"
  /\ inflight["p1"].directive = "Unauthorized"
  /\ inflight["p1"].doc.count = MaxLoginAttempts
  /\ clock - inflight["p1"].doc.lastAttempt = LockoutTime
  /\ loginAttempts[inflight["p1"].id].count = 1

\* the contents that differ from c in some of: text, URL, link title, file
\* name, file size, contact fields, description
ContentVariants(c) ==
  {[c EXCEPT !.text = text, !.url = url, !.linkTitle = linkTitle,
             !.originalName = originalName, !.fileSize = fileSize,
             !.contactName = contact[1], !.phone = contact[2],
             !.email = contact[3], !.company = contact[4],
             !.description = description] :
     text \in {c.text, Hello},
     url \in {c.url, OtherUrl},
     linkTitle \in {c.linkTitle, Name},
     originalName \in {c.originalName, Name},
     fileSize \in {c.fileSize, c.fileSize + 1},
     contact \in {<<c.contactName, c.phone, c.email, c.company>>,
                  <<Name, GoodPhone, GoodEmail, Company>>},
     description \in {c.description, Company}}

\* C30: the scan-info of an active record with a password is the one any
\* record would get that differs from it in its content fields only
C30_ScanInfoHidesContent ==
  [][\A id \in QRIds :
       (/\ res'.op = "getQRScanInfo"
        /\ GetQRScanInfo(id)
        /\ FindActive(db, id)
        /\ Truthy(db[id].settings.password))
       => \A c \in ContentVariants(db[id].currentContent) :
            ScanInfoResponse([db[id] EXCEPT !.currentContent = c]) = res']_vars

\* scan-info was asked of a protected record that holds a text, a link, a
\* file or a contact
C30_Witness ==
  /\ res.op = "getQRScanInfo"
  /\ res.directive = "LimitedInfo"
  /\ res.id \in DOMAIN db
  /\ db[res.id].isActive
  /\ Truthy(db[res.id].settings.password)
  /\ db[res.id].currentContent.type \in {"text", "link", "file", "contact"}
  /\ res.shown.type = db[res.id].currentContent.type


=============================================================================
